---- MODULE Spec2Model ----
(***************************************************************************)
(* myux: a ConPTY-backed terminal front end.                               *)
(*                                                                         *)
(* The model follows the main thread of src/main.rs through                *)
(*   spawn_conpty (src/conpty.rs)  ->  main setup  ->  the main loop       *)
(*   (drain, status line, poll/handle one event, redraw)  ->  F10 quit     *)
(*   ->  Drop of TabPty,                                                   *)
(* together with the reader thread that pumps ConPTY output into the       *)
(* channel.  The vt100 engine wrapped by VirtualTerminal is an external    *)
(* crate; it is represented by its scrollback contract only: a history     *)
(* of at most SCROLLBACK_LEN lines, an offset that set_scrollback clamps   *)
(* to the history length, and process() that appends the lines scrolled    *)
(* off the screen and keeps a scrolled-back view anchored.                 *)
(***************************************************************************)
EXTENDS Integers, Sequences, FiniteSets, TLC

VARIABLES
    pc,                 \* position of the main thread
    h,                  \* OS handle states: "none" | "open" | "closed"
    closeLog,           \* handles in the order they were closed
    attrMem,            \* attribute-list memory: "none" | "allocated" | "freed"
    attrList,           \* attribute list: "none" | "initialized" | "attached" | "deleted"
    cols, rows,         \* VirtualTerminal.cols / rows (physical console size)
    term_rows,          \* VirtualTerminal.term_rows
    history_len,        \* engine: number of lines in the scrollback history
    scrollback_offset,  \* engine: Screen::scrollback()
    pty_size,           \* <<cols, rows>> the pseudo-console advertises
    mode,               \* App.mode
    dirty,              \* main's dirty flag
    status_line,        \* mode name in the status line built this iteration
    chan,               \* mpsc channel reader thread -> main thread (chunk ids)
    nread,              \* number of non-empty chunks the reader thread has read
    pump,               \* reader thread: "idle" | "reading" | "done"
    terminated,         \* number of TerminateProcess requests issued
    fed,                \* chunk ids passed to feed_bytes, in order
    shown,              \* mode name in the status line painted last
    readClosed,         \* ReadFile was called on pty_out_read after its close
    last                \* the step the main thread took last, with the
                        \* offset and mode it started from and the bytes it wrote

vars == <<pc, h, closeLog, attrMem, attrList, cols, rows, term_rows,
          history_len, scrollback_offset, pty_size, mode, dirty, status_line,
          chan, nread, pump, terminated, fed, shown, readClosed, last>>

spawnVars == <<h, closeLog, attrMem, attrList>>
termVars  == <<cols, rows, term_rows, history_len, scrollback_offset>>
pumpVars  == <<chan, nread, pump>>

----------------------------------------------------------------------------
(* Bounds of the model.                                                    *)

\* stands in for SCROLLBACK_LEN (2000 lines) of src/terminal.rs
MaxHistory == 6
\* most lines one chunk can scroll off the screen
MaxFeedLines == 3
\* most chunks the reader thread reads in one run
MaxReads == 3

----------------------------------------------------------------------------
(* Constants of the program.                                               *)

SCROLL_STEP == 5
PAGE_STEP == 5

Handles == {"pty_in_read", "pty_in_write", "pty_out_read", "pty_out_write",
            "hpcon", "child_process", "child_thread"}

\* console sizes <<cols, rows>> the host reports
SizeVals == {<<2, 1>>, <<3, 3>>}
\* sizes <<new_cols, new_rows>> an Event::Resize can carry
ResizeVals == SizeVals \cup {<<2, 0>>}

NamedKeys == {"Enter", "Backspace", "Tab", "Left", "Right", "Up", "Down",
              "Esc", "PageUp", "PageDown", "F10", "Home"}
\* KeyCode::Char(c) for 'd' and for U+00E9
CharKeys == {"Char(d)", "Char(U+00E9)"}
CodePoint(k) == IF k = "Char(d)" THEN 100 ELSE 233
KeyCodes == NamedKeys \cup CharKeys
KeyKinds == {"Press", "Repeat", "Release"}
MouseKinds == {"ScrollUp", "ScrollDown", "Moved"}

Min(a, b) == IF a < b THEN a ELSE b
Max(a, b) == IF a > b THEN a ELSE b

NoLast == [ev |-> "none", key |-> "none", off |-> 0, mode |-> "Normal",
           size |-> <<0, 0>>, wrote |-> <<>>]

----------------------------------------------------------------------------
(* The vt100 engine's scrollback contract.                                 *)

\* Screen::set_scrollback(rows): the offset is clamped to the history length
set_scrollback(n, hist) == Min(n, hist)

\* Parser::process(bytes) with bytes that scroll n lines off the screen:
\* the history grows up to its capacity, and an offset > 0 follows the view
process_history(hist, n) == Min(hist + n, MaxHistory)
process_offset(off, hist, n) ==
    IF off > 0 THEN Min(process_history(hist, n), off + n) ELSE 0

----------------------------------------------------------------------------
(* VirtualTerminal (src/terminal.rs).                                      *)

\* a bug term_rows could have: the floor of one row is missing
TermRowsNoFloor(r) == IF r >= 1 THEN r - 1 ELSE 0

\* rows.saturating_sub(1).max(1)
TermRows(r) == Max(IF r >= 1 THEN r - 1 ELSE 0, 1)

current_scrollback == scrollback_offset

is_at_bottom == current_scrollback = 0

\* the offset after scroll_up(lines)
scroll_up(lines) == set_scrollback(current_scrollback + lines, history_len)

\* a bug scroll_down could have: a subtraction that does not saturate
scroll_down_unsaturated(lines) ==
    set_scrollback(current_scrollback - lines, history_len)

\* the offset after scroll_down(lines): cur.saturating_sub(lines)
scroll_down(lines) ==
    set_scrollback(IF current_scrollback >= lines
                   THEN current_scrollback - lines ELSE 0, history_len)

reset_scrollback == set_scrollback(0, history_len)

\* a bug feed_bytes could have: the view is anchored to its content even
\* when it is the live view
feed_bytes_anchored(n) ==
    /\ history_len' = process_history(history_len, n)
    /\ scrollback_offset' = Min(process_history(history_len, n),
                                scrollback_offset + n)

\* a bug feed_bytes could have: the reset is not guarded by is_at_bottom
feed_bytes_reset(n) ==
    /\ history_len' = process_history(history_len, n)
    /\ scrollback_offset' = process_offset(reset_scrollback, history_len, n)

\* feed_bytes(bytes), bytes non-empty, scrolling n lines off the screen
feed_bytes(n) ==
    LET off0 == IF is_at_bottom THEN reset_scrollback ELSE scrollback_offset
    IN  /\ history_len' = process_history(history_len, n)
        /\ scrollback_offset' = process_offset(off0, history_len, n)

----------------------------------------------------------------------------
Init ==
    /\ pc = "pipe_in"
    /\ h = [x \in Handles |-> "none"]
    /\ closeLog = <<>>
    /\ attrMem = "none"
    /\ attrList = "none"
    /\ \E s \in SizeVals : cols = s[1] /\ rows = s[2]
    /\ term_rows = 0
    /\ history_len = 0
    /\ scrollback_offset = 0
    /\ pty_size = <<0, 0>>
    /\ mode = "Normal"
    /\ dirty = FALSE
    /\ status_line = "none"
    /\ chan = <<>>
    /\ nread = 0
    /\ pump = "idle"
    /\ terminated = 0
    /\ fed = <<>>
    /\ shown = "none"
    /\ readClosed = FALSE
    /\ last = NoLast

----------------------------------------------------------------------------
(* spawn_conpty (src/conpty.rs), one action per fallible call.  A call     *)
(* that fails returns through `?`: the function has no cleanup path.       *)

runVars == <<cols, rows, term_rows, history_len, scrollback_offset, mode,
             dirty, status_line, chan, nread, pump, terminated, fed, shown,
             readClosed,
             last>>

Open(hs) == [x \in Handles |-> IF x \in hs THEN "open" ELSE h[x]]

\* CloseHandle / ClosePseudoConsole on one handle
CloseHandle(x) ==
    /\ h' = [h EXCEPT ![x] = "closed"]
    /\ closeLog' = Append(closeLog, x)

\* CreatePipe(&mut pty_in_read, &mut pty_in_write, ..).ok()?
CreatePipeIn ==
    /\ pc = "pipe_in"
    /\ \/ /\ h' = Open({"pty_in_read", "pty_in_write"})
          /\ pc' = "pipe_out"
       \/ /\ pc' = "spawn_failed"
          /\ UNCHANGED h
    /\ UNCHANGED <<closeLog, attrMem, attrList, pty_size>>
    /\ UNCHANGED runVars

\* CreatePipe(&mut pty_out_read, &mut pty_out_write, ..).ok()?
CreatePipeOut ==
    /\ pc = "pipe_out"
    /\ \/ /\ h' = Open({"pty_out_read", "pty_out_write"})
          /\ pc' = "create_pcon"
       \/ /\ pc' = "spawn_failed"
          /\ UNCHANGED h
    /\ UNCHANGED <<closeLog, attrMem, attrList, pty_size>>
    /\ UNCHANGED runVars

\* CreatePseudoConsole(COORD { X: cols, Y: rows }, pty_in_read, pty_out_write, 0)?
CreatePseudoConsole ==
    /\ pc = "create_pcon"
    /\ \/ /\ h' = Open({"hpcon"})
          /\ pty_size' = <<cols, rows>>
          /\ pc' = "close_ends"
       \/ /\ pc' = "spawn_failed"
          /\ UNCHANGED <<h, pty_size>>
    /\ UNCHANGED <<closeLog, attrMem, attrList>>
    /\ UNCHANGED runVars

\* a bug the spawn could have: it closes the caller's ends of the pipes
CloseCallerEnds ==
    /\ pc = "close_ends"
    /\ h' = [h EXCEPT !["pty_in_write"] = "closed", !["pty_out_read"] = "closed"]
    /\ closeLog' = closeLog \o <<"pty_in_write", "pty_out_read">>
    /\ pc' = "attr_size"
    /\ UNCHANGED <<attrMem, attrList, pty_size>>
    /\ UNCHANGED runVars

\* let _ = CloseHandle(pty_in_read); let _ = CloseHandle(pty_out_write);
CloseFacilityEnds ==
    /\ pc = "close_ends"
    /\ h' = [h EXCEPT !["pty_in_read"] = "closed", !["pty_out_write"] = "closed"]
    /\ closeLog' = closeLog \o <<"pty_in_read", "pty_out_write">>
    /\ pc' = "attr_size"
    /\ UNCHANGED <<attrMem, attrList, pty_size>>
    /\ UNCHANGED runVars

\* InitializeProcThreadAttributeList(null_mut(), 1, 0, &mut attr_list_size)?
AttrSizeQuery ==
    /\ pc = "attr_size"
    /\ \/ pc' = "heap_alloc"
       \/ pc' = "spawn_failed"
    /\ UNCHANGED <<spawnVars, pty_size>>
    /\ UNCHANGED runVars

\* GetProcessHeap()?; HeapAlloc(..); if attr_list_mem.is_null() { return Err(..) }
HeapAlloc ==
    /\ pc = "heap_alloc"
    /\ \/ /\ attrMem' = "allocated"
          /\ pc' = "attr_init"
       \/ /\ pc' = "spawn_failed"
          /\ UNCHANGED attrMem
    /\ UNCHANGED <<h, closeLog, attrList, pty_size>>
    /\ UNCHANGED runVars

\* InitializeProcThreadAttributeList(si_ex.lpAttributeList, 1, 0, ..)?
AttrInit ==
    /\ pc = "attr_init"
    /\ \/ /\ attrList' = "initialized"
          /\ pc' = "attr_update"
       \/ /\ pc' = "spawn_failed"
          /\ UNCHANGED attrList
    /\ UNCHANGED <<h, closeLog, attrMem, pty_size>>
    /\ UNCHANGED runVars

\* UpdateProcThreadAttribute(.., PROC_THREAD_ATTRIBUTE_PSEUDOCONSOLE, ..).ok()?
AttrUpdate ==
    /\ pc = "attr_update"
    /\ \/ /\ attrList' = "attached"
          /\ pc' = "create_process"
       \/ /\ pc' = "spawn_failed"
          /\ UNCHANGED attrList
    /\ UNCHANGED <<h, closeLog, attrMem, pty_size>>
    /\ UNCHANGED runVars

\* CreateProcessW(.., &si_ex.StartupInfo, &mut pi).ok()?
CreateProcessW ==
    /\ pc = "create_process"
    /\ \/ /\ h' = Open({"child_process", "child_thread"})
          /\ pc' = "attr_cleanup"
       \/ /\ pc' = "spawn_failed"
          /\ UNCHANGED h
    /\ UNCHANGED <<closeLog, attrMem, attrList, pty_size>>
    /\ UNCHANGED runVars

\* DeleteProcThreadAttributeList(..); HeapFree(..); Ok(TabPty { .. })
AttrCleanup ==
    /\ pc = "attr_cleanup"
    /\ attrList' = "deleted"
    /\ attrMem' = "freed"
    /\ pc' = "spawned"
    /\ UNCHANGED <<h, closeLog, pty_size>>
    /\ UNCHANGED runVars

----------------------------------------------------------------------------
(* main (src/main.rs): setup after a successful spawn.                     *)

\* the record of a main-thread step taken from the current state
Step(e, k, w) == [ev |-> e, key |-> k, off |-> scrollback_offset,
                  mode |-> mode, size |-> <<cols, rows>>, wrote |-> w]

\* VirtualTerminal::new, App { .. }, mpsc::channel, thread::spawn, dirty = true
MainSetup ==
    /\ pc = "spawned"
    /\ term_rows' = TermRows(rows)
    /\ history_len' = 0
    /\ scrollback_offset' = 0
    /\ mode' = "Normal"
    /\ chan' = <<>>
    /\ pump' = "reading"
    /\ dirty' = TRUE
    /\ pc' = "drain"
    /\ UNCHANGED <<spawnVars, pty_size, cols, rows, status_line, nread,
                   terminated, last>>
    /\ UNCHANGED <<fed, shown, readClosed>>

----------------------------------------------------------------------------
(* The reader thread.                                                      *)

\* a bug the reader thread could have: the chunk is sent without being
\* copied out of buf, so every chunk still in the channel shows the last read
PumpReadSharedBuf ==
    /\ pump = "reading"
    /\ pc # "exited"
    /\ h["pty_out_read"] = "open"
    /\ nread < MaxReads
    /\ nread' = nread + 1
    /\ chan' = [i \in 1..(Len(chan) + 1) |-> nread + 1]
    /\ UNCHANGED <<pc, spawnVars, termVars, pty_size, mode, dirty,
                   status_line, pump, terminated, last>>
    /\ UNCHANGED <<fed, shown, readClosed>>

\* ReadFile returned read > 0: the chunk is sent through the channel.
\* Output already in the pipe stays readable after the pseudo-console is closed.
PumpRead ==
    /\ pump = "reading"
    /\ pc # "exited"
    /\ h["pty_out_read"] = "open"
    /\ nread < MaxReads
    /\ nread' = nread + 1
    /\ chan' = Append(chan, nread + 1)
    /\ UNCHANGED <<pc, spawnVars, termVars, pty_size, mode, dirty,
                   status_line, pump, terminated, last>>
    /\ UNCHANGED <<fed, shown, readClosed>>

\* the reader thread reads on after MaxReads chunks; these chunks are no
\* longer numbered (id 0), and no more than MaxReads of them are in flight
PumpReadOn ==
    /\ pump = "reading"
    /\ pc # "exited"
    /\ h["pty_out_read"] = "open"
    /\ nread = MaxReads
    /\ Len(chan) < MaxReads
    /\ chan' = Append(chan, 0)
    /\ UNCHANGED <<pc, spawnVars, termVars, pty_size, mode, dirty,
                   status_line, nread, pump, terminated, last>>
    /\ UNCHANGED <<fed, shown, readClosed>>

\* The thread is at the top of its loop when Drop for TabPty has closed
\* pty_out_read: out_handle is a raw copy of the handle value, so ReadFile is
\* called on the closed handle.  The call fails and the loop breaks.
PumpReadClosed ==
    /\ pump = "reading"
    /\ pc # "exited"
    /\ h["pty_out_read"] = "closed"
    /\ readClosed' = TRUE
    /\ pump' = "done"
    /\ UNCHANGED <<pc, spawnVars, termVars, pty_size, mode, dirty,
                   status_line, chan, nread, terminated, last>>
    /\ UNCHANGED <<fed, shown>>

\* ReadFile on the open handle failed or returned read == 0: break
PumpStop ==
    /\ pump = "reading"
    /\ pc # "exited"
    /\ h["pty_out_read"] = "open"
    /\ pump' = "done"
    /\ UNCHANGED <<pc, spawnVars, termVars, pty_size, mode, dirty,
                   status_line, chan, nread, terminated, last>>
    /\ UNCHANGED <<fed, shown, readClosed>>

----------------------------------------------------------------------------
(* The main loop: drain, status line, one event, redraw.                   *)

ModeStr(m) == IF m = "Normal" THEN "normal" ELSE "scroll"

\* the log of fed chunks; a chunk that is not numbered is not logged
Logged(log, id) == IF id = 0 THEN log ELSE Append(log, id)

\* while let Ok(bytes) = rx.try_recv() { term.feed_bytes(&bytes); dirty = true; }
DrainFeed ==
    /\ pc = "drain"
    /\ chan # <<>>
    /\ \E n \in 0..MaxFeedLines : feed_bytes(n)
    /\ fed' = Logged(fed, Head(chan))
    /\ chan' = Tail(chan)
    /\ dirty' = TRUE
    /\ last' = Step("feed", "none", <<>>)
    /\ UNCHANGED <<pc, spawnVars, pty_size, cols, rows, term_rows, mode,
                   status_line, nread, pump, terminated>>
    /\ UNCHANGED <<shown, readClosed>>

\* try_recv() found the channel empty; the status line is built
BuildStatus ==
    /\ pc = "drain"
    /\ chan = <<>>
    /\ status_line' = ModeStr(mode)
    /\ pc' = "poll"
    /\ last' = Step("status", "none", <<>>)
    /\ UNCHANGED <<spawnVars, termVars, pty_size, mode, dirty, pumpVars,
                   terminated>>
    /\ UNCHANGED <<fed, shown, readClosed>>

\* event::poll(50 ms) returned false
PollTimeout ==
    /\ pc = "poll"
    /\ pc' = "redraw"
    /\ last' = Step("timeout", "none", <<>>)
    /\ UNCHANGED <<spawnVars, termVars, pty_size, mode, dirty, status_line,
                   pumpVars, terminated>>
    /\ UNCHANGED <<fed, shown, readClosed>>

\* c.encode_utf8(&mut s) for a code point below U+0800
encode_utf8(c) ==
    IF c < 128 THEN <<c>>
    ELSE <<192 + (c \div 64), 128 + (c % 64)>>

\* a bug the "Normal key -> ConPTY" match could have: Enter sends a line feed
KeyBytesLineFeed(code) ==
    CASE code = "Enter"     -> <<10>>
      [] code = "Backspace" -> <<8>>
      [] code = "Tab"       -> <<9>>
      [] code \in CharKeys  -> encode_utf8(CodePoint(code))
      [] code = "Left"      -> <<27, 91, 68>>
      [] code = "Right"     -> <<27, 91, 67>>
      [] code = "Up"        -> <<27, 91, 65>>
      [] code = "Down"      -> <<27, 91, 66>>
      [] code = "Esc"       -> <<27>>
      [] OTHER              -> <<>>

\* the bytes main writes for a key in the "Normal key -> ConPTY" match
KeyBytes(code) ==
    CASE code = "Enter"     -> <<13>>
      [] code = "Backspace" -> <<8>>
      [] code = "Tab"       -> <<9>>
      [] code \in CharKeys  -> encode_utf8(CodePoint(code))
      [] code = "Left"      -> <<27, 91, 68>>
      [] code = "Right"     -> <<27, 91, 67>>
      [] code = "Up"        -> <<27, 91, 65>>
      [] code = "Down"      -> <<27, 91, 66>>
      [] code = "Esc"       -> <<27>>
      [] OTHER              -> <<>>

\* if kind != KeyEventKind::Press { continue; }
KeyIgnored ==
    /\ pc = "poll"
    /\ \E code \in KeyCodes, kind \in KeyKinds \ {"Press"} :
          last' = Step(kind, code, <<>>)
    /\ pc' = "drain"
    /\ UNCHANGED <<spawnVars, termVars, pty_size, mode, dirty, status_line,
                   pumpVars, terminated>>
    /\ UNCHANGED <<fed, shown, readClosed>>

\* a bug the F10 arm could have: the child is terminated but main does not
\* return, so the loop goes on handling events
KeyQuitContinues ==
    /\ pc = "poll"
    /\ terminated < 2
    /\ terminated' = terminated + 1
    /\ pc' = "drain"
    /\ last' = Step("Press", "F10", <<>>)
    /\ UNCHANGED <<spawnVars, termVars, pty_size, mode, dirty, status_line,
                   pumpVars>>
    /\ UNCHANGED <<fed, shown, readClosed>>

\* F10: TerminateProcess(child, 0); ...; return Ok(())
KeyQuit ==
    /\ pc = "poll"
    /\ terminated' = terminated + 1
    /\ pc' = "drop_1"
    /\ last' = Step("Press", "F10", <<>>)
    /\ UNCHANGED <<spawnVars, termVars, pty_size, mode, dirty, status_line,
                   pumpVars>>
    /\ UNCHANGED <<fed, shown, readClosed>>

\* PageUp, in Normal (enters Scrollback) and in Scrollback
KeyPageUp ==
    /\ pc = "poll"
    /\ mode' = "Scrollback"
    /\ scrollback_offset' = scroll_up(PAGE_STEP)
    /\ dirty' = TRUE
    /\ pc' = "drain"
    /\ last' = Step("Press", "PageUp", <<>>)
    /\ UNCHANGED <<spawnVars, cols, rows, term_rows, history_len, pty_size,
                   status_line, pumpVars, terminated>>
    /\ UNCHANGED <<fed, shown, readClosed>>

\* a bug the PageDown arm could have: no return to Normal at the bottom
KeyPageDownStays ==
    /\ pc = "poll"
    /\ mode = "Scrollback"
    /\ scrollback_offset' = scroll_down(PAGE_STEP)
    /\ dirty' = TRUE
    /\ pc' = "drain"
    /\ last' = Step("Press", "PageDown", <<>>)
    /\ UNCHANGED <<spawnVars, cols, rows, term_rows, history_len, pty_size,
                   mode, status_line, pumpVars, terminated>>
    /\ UNCHANGED <<fed, shown, readClosed>>

\* Scrollback / PageDown
KeyPageDown ==
    /\ pc = "poll"
    /\ mode = "Scrollback"
    /\ scrollback_offset' = scroll_down(PAGE_STEP)
    /\ mode' = IF scrollback_offset' = 0 THEN "Normal" ELSE mode
    /\ dirty' = TRUE
    /\ pc' = "drain"
    /\ last' = Step("Press", "PageDown", <<>>)
    /\ UNCHANGED <<spawnVars, cols, rows, term_rows, history_len, pty_size,
                   status_line, pumpVars, terminated>>
    /\ UNCHANGED <<fed, shown, readClosed>>

\* a bug the Esc arm could have: the mode changes but the view is not reset
KeyEscNoReset ==
    /\ pc = "poll"
    /\ mode = "Scrollback"
    /\ mode' = "Normal"
    /\ dirty' = TRUE
    /\ pc' = "drain"
    /\ last' = Step("Press", "Esc", <<>>)
    /\ UNCHANGED <<spawnVars, termVars, pty_size, status_line, pumpVars,
                   terminated>>
    /\ UNCHANGED <<fed, shown, readClosed>>

\* Scrollback / Esc
KeyEsc ==
    /\ pc = "poll"
    /\ mode = "Scrollback"
    /\ scrollback_offset' = reset_scrollback
    /\ mode' = "Normal"
    /\ dirty' = TRUE
    /\ pc' = "drain"
    /\ last' = Step("Press", "Esc", <<>>)
    /\ UNCHANGED <<spawnVars, cols, rows, term_rows, history_len, pty_size,
                   status_line, pumpVars, terminated>>
    /\ UNCHANGED <<fed, shown, readClosed>>

\* a bug the last Scrollback arm could have: it falls through to the
\* "Normal key -> ConPTY" match instead of continuing
KeyFallsThrough ==
    /\ pc = "poll"
    /\ mode = "Scrollback"
    /\ \E code \in KeyCodes \ {"F10", "PageUp", "PageDown", "Esc"} :
          last' = Step("Press", code, KeyBytes(code))
    /\ dirty' = TRUE
    /\ pc' = "redraw"
    /\ UNCHANGED <<spawnVars, termVars, pty_size, mode, status_line,
                   pumpVars, terminated>>
    /\ UNCHANGED <<fed, shown, readClosed>>

\* Scrollback / any other key: continue
KeySuppressed ==
    /\ pc = "poll"
    /\ mode = "Scrollback"
    /\ \E code \in KeyCodes \ {"F10", "PageUp", "PageDown", "Esc"} :
          last' = Step("Press", code, <<>>)
    /\ pc' = "drain"
    /\ UNCHANGED <<spawnVars, termVars, pty_size, mode, dirty, status_line,
                   pumpVars, terminated>>
    /\ UNCHANGED <<fed, shown, readClosed>>

\* Normal / any key but PageUp: write_all(pty_in, ..); dirty = true
KeyForward ==
    /\ pc = "poll"
    /\ mode = "Normal"
    /\ \E code \in KeyCodes \ {"F10", "PageUp"} :
          last' = Step("Press", code, KeyBytes(code))
    /\ dirty' = TRUE
    /\ pc' = "redraw"
    /\ UNCHANGED <<spawnVars, termVars, pty_size, mode, status_line,
                   pumpVars, terminated>>
    /\ UNCHANGED <<fed, shown, readClosed>>

\* MouseEventKind::ScrollUp
MouseScrollUp ==
    /\ pc = "poll"
    /\ mode' = "Scrollback"
    /\ scrollback_offset' = scroll_up(SCROLL_STEP)
    /\ dirty' = TRUE
    /\ pc' = "redraw"
    /\ last' = Step("Mouse", "ScrollUp", <<>>)
    /\ UNCHANGED <<spawnVars, cols, rows, term_rows, history_len, pty_size,
                   status_line, pumpVars, terminated>>
    /\ UNCHANGED <<fed, shown, readClosed>>

\* a bug the wheel-down arm could have: Normal is restored without the
\* is_at_bottom test
MouseScrollDownToNormal ==
    /\ pc = "poll"
    /\ IF mode = "Scrollback"
       THEN /\ scrollback_offset' = scroll_down(SCROLL_STEP)
            /\ mode' = "Normal"
            /\ dirty' = TRUE
       ELSE UNCHANGED <<scrollback_offset, mode, dirty>>
    /\ pc' = "redraw"
    /\ last' = Step("Mouse", "ScrollDown", <<>>)
    /\ UNCHANGED <<spawnVars, cols, rows, term_rows, history_len, pty_size,
                   status_line, pumpVars, terminated>>
    /\ UNCHANGED <<fed, shown, readClosed>>

\* MouseEventKind::ScrollDown
MouseScrollDown ==
    /\ pc = "poll"
    /\ IF mode = "Scrollback"
       THEN /\ scrollback_offset' = scroll_down(SCROLL_STEP)
            /\ mode' = IF scrollback_offset' = 0 THEN "Normal" ELSE mode
            /\ dirty' = TRUE
       ELSE UNCHANGED <<scrollback_offset, mode, dirty>>
    /\ pc' = "redraw"
    /\ last' = Step("Mouse", "ScrollDown", <<>>)
    /\ UNCHANGED <<spawnVars, cols, rows, term_rows, history_len, pty_size,
                   status_line, pumpVars, terminated>>
    /\ UNCHANGED <<fed, shown, readClosed>>

\* any other mouse event, and any event that is no key, mouse or resize
OtherEvent ==
    /\ pc = "poll"
    /\ pc' = "redraw"
    /\ last' = Step("Other", "none", <<>>)
    /\ UNCHANGED <<spawnVars, termVars, pty_size, mode, dirty, status_line,
                   pumpVars, terminated>>
    /\ UNCHANGED <<fed, shown, readClosed>>

\* Event::Resize(new_cols, new_rows): term.resize(..); let _ = pty.resize(..)
ResizeEvent ==
    /\ pc = "poll"
    /\ \E s \in ResizeVals :
          /\ cols' = s[1]
          /\ rows' = s[2]
          /\ term_rows' = TermRows(s[2])
          /\ \/ /\ pty_size' = s           \* ResizePseudoConsole succeeded
                /\ last' = Step("Resize", "none", <<>>)
             \/ /\ UNCHANGED pty_size      \* it failed; the error is dropped
                /\ last' = Step("ResizeFailed", "none", <<>>)
    /\ dirty' = TRUE
    /\ pc' = "redraw"
    /\ UNCHANGED <<spawnVars, history_len, scrollback_offset, mode,
                   status_line, pumpVars, terminated>>
    /\ UNCHANGED <<fed, shown, readClosed>>

\* if dirty { renderer.draw(..); dirty = false; }
Redraw ==
    /\ pc = "redraw"
    /\ shown' = IF dirty THEN status_line ELSE shown
    /\ dirty' = FALSE
    /\ pc' = "drain"
    /\ last' = Step(IF dirty THEN "draw" ELSE "nodraw", "none", <<>>)
    /\ UNCHANGED <<spawnVars, termVars, pty_size, mode, status_line,
                   pumpVars, terminated>>
    /\ UNCHANGED <<fed, readClosed>>

----------------------------------------------------------------------------
(* main returns after F10: app is dropped, which runs Drop for TabPty.     *)

\* a bug Drop could have: the pipe ends are closed before the device handle
DropOrderPipesFirst ==
    <<"pty_in_write", "pty_out_read", "hpcon", "child_process", "child_thread">>

\* the handles Drop for TabPty closes, in the order of its statements
DropOrder ==
    <<"hpcon", "pty_in_write", "pty_out_read", "child_process", "child_thread">>

DropPc == <<"drop_1", "drop_2", "drop_3", "drop_4", "drop_5", "drop_term">>

\* the i-th statement of Drop for TabPty
DropStep(i) ==
    /\ pc = DropPc[i]
    /\ CloseHandle(DropOrder[i])
    /\ pc' = DropPc[i + 1]
    /\ UNCHANGED <<attrMem, attrList, pty_size>>
    /\ UNCHANGED runVars

\* ClosePseudoConsole(self.hpcon)
DropHpcon == DropStep(1)
\* CloseHandle(self.pty_in_write)
DropInWrite == DropStep(2)
\* CloseHandle(self.pty_out_read)
DropOutRead == DropStep(3)
\* CloseHandle(self.child_process)
DropProcess == DropStep(4)
\* CloseHandle(self.child_thread)
DropThread == DropStep(5)

\* Tab.term is dropped after Tab.pty: the VirtualTerminal is released
DropTerm ==
    /\ pc = "drop_term"
    /\ pc' = "term_dropped"
    /\ UNCHANGED <<spawnVars, pty_size>>
    /\ UNCHANGED runVars

\* rx is dropped, main returns and the process exits; the reader thread,
\* which main never joins, ends with the process
MainReturn ==
    /\ pc = "term_dropped"
    /\ pc' = "exited"
    /\ UNCHANGED <<spawnVars, pty_size>>
    /\ UNCHANGED runVars

----------------------------------------------------------------------------
Next ==
    \/ CreatePipeIn
    \/ CreatePipeOut
    \/ CreatePseudoConsole
    \/ CloseFacilityEnds
    \/ AttrSizeQuery
    \/ HeapAlloc
    \/ AttrInit
    \/ AttrUpdate
    \/ CreateProcessW
    \/ AttrCleanup
    \/ MainSetup
    \/ PumpRead
    \/ PumpReadClosed
    \/ PumpStop
    \/ DrainFeed
    \/ BuildStatus
    \/ PollTimeout
    \/ KeyIgnored
    \/ KeyQuit
    \/ KeyPageUp
    \/ KeyPageDown
    \/ KeyEsc
    \/ KeySuppressed
    \/ KeyForward
    \/ MouseScrollUp
    \/ MouseScrollDown
    \/ OtherEvent
    \/ ResizeEvent
    \/ Redraw
    \/ DropHpcon
    \/ DropInWrite
    \/ DropOutRead
    \/ DropProcess
    \/ DropThread
    \/ DropTerm
    \/ MainReturn

Spec == Init /\ [][Next]_vars

\* the steps of the main thread
MainThread ==
    \/ CreatePipeIn \/ CreatePipeOut \/ CreatePseudoConsole
    \/ CloseFacilityEnds \/ AttrSizeQuery \/ HeapAlloc \/ AttrInit
    \/ AttrUpdate \/ CreateProcessW \/ AttrCleanup \/ MainSetup
    \/ DrainFeed \/ BuildStatus \/ PollTimeout \/ KeyIgnored \/ KeyQuit
    \/ KeyPageUp \/ KeyPageDown \/ KeyEsc \/ KeySuppressed \/ KeyForward
    \/ MouseScrollUp \/ MouseScrollDown \/ OtherEvent \/ ResizeEvent
    \/ Redraw \/ DropHpcon \/ DropInWrite \/ DropOutRead \/ DropProcess
    \/ DropThread \/ DropTerm \/ MainReturn

NextOn ==
    \/ Next
    \/ PumpReadOn

\* The program with its main thread scheduled: it takes a step whenever it
\* can.  The child writes MaxReads chunks at most.
FairLoop ==
    /\ Init
    /\ [][Next]_vars
    /\ WF_vars(MainThread)

\* The program with a child that may write without end.  The main thread is
\* scheduled: it takes a step whenever it can.  Nothing is assumed of the
\* reader thread, which stays in ReadFile for as long as the child is silent.
FairSpec ==
    /\ Init
    /\ [][NextOn]_vars
    /\ WF_vars(MainThread)

----------------------------------------------------------------------------
(* Handle lifecycle: spawn_conpty and Drop for TabPty.                     *)

SpawnPcs == {"pipe_in", "pipe_out", "create_pcon", "close_ends", "attr_size",
             "heap_alloc", "attr_init", "attr_update", "create_process",
             "attr_cleanup"}

SessionHandles == {"hpcon", "pty_in_write", "pty_out_read", "child_process",
                   "child_thread"}

\* C1: when spawn_conpty has returned an error, no handle acquired by the
\* earlier steps is still open (each was released), whatever step failed.
C1_FailedSpawnReleasesAll ==
    pc = "spawn_failed" => \A x \in Handles : h[x] # "open"

\* C2: the attribute block is fully initialised (the pseudo-console is
\* attached) when CreateProcessW is invoked, and once allocated it has been
\* deleted and freed on every path out of spawn_conpty.
C2_AttrBlockReleased ==
    /\ pc = "create_process" => attrList = "attached"
    /\ (pc \notin SpawnPcs /\ attrMem # "none") =>
           (attrMem = "freed" /\ attrList = "deleted")

\* the closes issued by teardown, in order
DropCloses == SelectSeq(closeLog, LAMBDA x : x \in SessionHandles)

\* C3: teardown closes the device handle first, then the input-write end,
\* the output-read end, the process handle and the thread handle; no pipe
\* or process handle is closed while the device handle is still open.
C3_TeardownOrder ==
    /\ DropCloses = SubSeq(<<"hpcon", "pty_in_write", "pty_out_read",
                             "child_process", "child_thread">>,
                           1, Len(DropCloses))
    /\ pc = "exited" => Len(DropCloses) = 5
    /\ \A x \in SessionHandles : h[x] = "closed" => h["hpcon"] = "closed"

C3_Witness ==
    /\ pc = "exited"
    /\ Len(DropCloses) = 5
    /\ h["child_thread"] = "closed"

\* C4: no handle is closed twice: the facility-side pipe ends are closed once
\* by spawn_conpty, the five handles of the session once by teardown.
C4_NoDoubleClose ==
    /\ \A i, j \in 1..Len(closeLog) : i # j => closeLog[i] # closeLog[j]
    /\ \A x \in Handles : h[x] = "closed" <=> \E i \in 1..Len(closeLog) : closeLog[i] = x
    /\ pc \notin (SpawnPcs \cup {"spawn_failed"}) =>
           (h["pty_in_read"] = "closed" /\ h["pty_out_write"] = "closed")
    /\ pc = "exited" => \A x \in Handles : h[x] = "closed"

C4_Witness ==
    /\ pc = "exited"
    /\ Len(closeLog) = 7
    /\ last.ev = "Press" /\ last.key = "F10"

----------------------------------------------------------------------------
(* Scrollback model and mode state machine.                                *)

ScrollUpKeys == {"PageUp", "ScrollUp"}
ScrollDownKeys == {"PageDown", "ScrollDown"}

\* C5: the scrollback offset stays within [0, history_length], the history
\* within its capacity, and is_at_bottom() holds exactly when the offset is 0.
C5_ScrollbackBounds ==
    /\ 0 <= scrollback_offset
    /\ scrollback_offset <= history_len
    /\ history_len <= MaxHistory
    /\ is_at_bottom <=> scrollback_offset = 0

\* a scroll-up that saturated at the history length, on a full history
C5_Witness ==
    /\ last.key \in ScrollUpKeys
    /\ last.off > 0
    /\ last.off + SCROLL_STEP > history_len
    /\ scrollback_offset = history_len
    /\ history_len = MaxHistory

\* C6: a feed taken at the live view leaves the view at the bottom.
C6_LivePin ==
    (last.ev = "feed" /\ last.off = 0) => is_at_bottom

\* a feed at the live view that added history
C6_Witness ==
    /\ last.ev = "feed"
    /\ last.off = 0
    /\ history_len > 0
    /\ scrollback_offset = 0

\* C7: a feed taken with the view scrolled back leaves it scrolled back, and
\* a feed never changes the mode.
C7_FeedKeepsView ==
    /\ (last.ev = "feed" /\ last.off > 0) => scrollback_offset > 0
    /\ last.ev = "feed" => mode = last.mode

\* a feed in Scrollback that moved the offset along with the new history
C7_Witness ==
    /\ last.ev = "feed"
    /\ last.mode = "Scrollback"
    /\ last.off > 0
    /\ scrollback_offset > last.off

\* C8: a scroll-down gesture handled in Scrollback lowers the offset by the
\* step, saturating at 0, and the mode is Normal exactly when the view is
\* then at the bottom; from offset 3 the offset becomes 0 and the mode Normal.
C8_ModeAutoExit ==
    (last.key \in ScrollDownKeys /\ last.ev \in {"Press", "Mouse"}
        /\ last.mode = "Scrollback") =>
        /\ scrollback_offset = Max(last.off - SCROLL_STEP, 0)
        /\ mode = (IF is_at_bottom THEN "Normal" ELSE "Scrollback")
        /\ last.off = 3 => (scrollback_offset = 0 /\ mode = "Normal")

\* PageDown pressed in Scrollback at offset 3
C8_Witness ==
    /\ last.ev = "Press" /\ last.key = "PageDown"
    /\ last.mode = "Scrollback"
    /\ last.off = 3
    /\ scrollback_offset = 0
    /\ mode = "Normal"

\* C9 as stated: a scroll-up gesture in Normal gives Scrollback with the
\* offset equal to the step, and Esc in Scrollback gives Normal at offset 0.
C9_RoundTripOriginal ==
    /\ (last.key \in ScrollUpKeys /\ last.ev \in {"Press", "Mouse"}
           /\ last.mode = "Normal") =>
           (mode = "Scrollback" /\ scrollback_offset = SCROLL_STEP)
    /\ (last.ev = "Press" /\ last.key = "Esc" /\ last.mode = "Scrollback") =>
           (mode = "Normal" /\ scrollback_offset = 0)

\* C9 amended: a scroll-up gesture in Normal gives Scrollback with the offset
\* equal to the smaller of the step and the history length, and Esc in
\* Scrollback gives Normal at offset 0.
C9_RoundTrip ==
    /\ (last.key \in ScrollUpKeys /\ last.ev \in {"Press", "Mouse"}
           /\ last.mode = "Normal") =>
           /\ mode = "Scrollback"
           /\ scrollback_offset = Min(SCROLL_STEP, history_len)
    /\ (last.ev = "Press" /\ last.key = "Esc" /\ last.mode = "Scrollback") =>
           (mode = "Normal" /\ scrollback_offset = 0)

\* Esc pressed in Scrollback one full step above the live view
C9_Witness ==
    /\ last.ev = "Press" /\ last.key = "Esc"
    /\ last.mode = "Scrollback"
    /\ last.off = SCROLL_STEP
    /\ mode = "Normal"
    /\ scrollback_offset = 0

\* C10: a key event handled in Scrollback writes nothing to the session's
\* input, and a key that is no scroll or cancel gesture leaves the mode
\* Scrollback and the offset as it was.
C10_ScrollbackSuppressesKeys ==
    (last.ev \in KeyKinds /\ last.mode = "Scrollback") =>
        /\ last.wrote = <<>>
        /\ last.key \notin {"PageUp", "PageDown", "Esc"} =>
               (mode = "Scrollback" /\ scrollback_offset = last.off)

\* a character key pressed in Scrollback
C10_Witness ==
    /\ last.ev = "Press" /\ last.key = "Char(d)"
    /\ last.mode = "Scrollback"
    /\ last.off > 0
    /\ mode = "Scrollback"

----------------------------------------------------------------------------
(* Typing and quitting.                                                    *)

\* the keys the claim names, each with the bytes the claim gives for it
C11_Mapped ==
    [Enter |-> <<13>>, Backspace |-> <<8>>, Tab |-> <<9>>,
     Left |-> <<27, 91, 68>>, Right |-> <<27, 91, 67>>,
     Up |-> <<27, 91, 65>>, Down |-> <<27, 91, 66>>, Esc |-> <<27>>]

\* C11: a key event received in Normal mode writes, when it is the press of
\* a mapped key, exactly that key's bytes (a character: its UTF-8 encoding)
\* and leaves the mode Normal; a repeat or a release writes nothing and
\* changes neither the mode, nor the scrollback offset, nor the geometry.
C11_NormalTyping ==
    (last.ev \in KeyKinds /\ last.mode = "Normal") =>
        /\ (last.ev = "Press" /\ last.key \in DOMAIN C11_Mapped) =>
              (last.wrote = C11_Mapped[last.key] /\ mode = "Normal")
        /\ (last.ev = "Press" /\ last.key = "Char(d)") =>
              (last.wrote = <<100>> /\ mode = "Normal")
        /\ (last.ev = "Press" /\ last.key = "Char(U+00E9)") =>
              (last.wrote = <<195, 169>> /\ mode = "Normal")
        /\ (last.ev # "Press") =>
              /\ last.wrote = <<>>
              /\ mode = last.mode
              /\ scrollback_offset = last.off
              /\ <<cols, rows>> = last.size
              /\ pc = "drain"

\* Enter was pressed in Normal mode and a carriage return was written
C11_Witness ==
    /\ last.ev = "Press"
    /\ last.key = "Enter"
    /\ last.mode = "Normal"
    /\ last.wrote = <<13>>

\* where main is once F10 has been handled
QuitPcs ==
    {"drop_1", "drop_2", "drop_3", "drop_4", "drop_5", "drop_term",
     "term_dropped", "exited"}

\* C12: TerminateProcess is called at most once, it has been called exactly
\* when main is past the F10 arm, and from then on the F10 press stays the
\* last event handled, with nothing written to the session input.
C12_QuitOnce ==
    /\ terminated <= 1
    /\ (terminated = 1) <=> (pc \in QuitPcs)
    /\ (terminated = 1) =>
          (last.ev = "Press" /\ last.key = "F10" /\ last.wrote = <<>>)

\* the program has exited after an F10 press handled in Scrollback mode
C12_Witness ==
    /\ pc = "exited"
    /\ terminated = 1
    /\ last.key = "F10"
    /\ last.mode = "Scrollback"

----------------------------------------------------------------------------
(* Geometry.                                                               *)

\* where main is while the control loop runs
LoopPcs == {"drain", "poll", "redraw"}

\* C13: while the control loop runs, the size the pseudo-console advertises
\* to the child is the size of the screen the terminal model renders,
\* cols by term_rows.
C13_SameGeometry ==
    (pc \in LoopPcs) => (pty_size = <<cols, term_rows>>)

\* C14: once the terminal model is constructed, term_rows is
\* max(1, rows - 1): it is never 0, and it is 1 when rows is 0 or 1.
C14_ResizeFloor ==
    (pc \in LoopPcs \cup QuitPcs) =>
        /\ term_rows = (IF rows - 1 > 1 THEN rows - 1 ELSE 1)
        /\ term_rows >= 1
        /\ (rows \in {0, 1}) => (term_rows = 1)

\* a Resize event to 0 rows was handled and left one terminal row
C14_Witness ==
    /\ last.ev \in {"Resize", "ResizeFailed"}
    /\ rows = 0
    /\ term_rows = 1

----------------------------------------------------------------------------
(* The reader thread and the control loop.                                 *)

\* C15: the chunks fed to the terminal model are the chunks the reader
\* thread read, each as it was read, once, in reading order: chunk i is the
\* i-th one fed, and the chunks fed followed by the chunks in the channel
\* are the chunks read.
C15_OrderedDelivery ==
    /\ \A i \in 1..Len(fed) : fed[i] = i
    /\ Len(fed) <= nread
    /\ fed \o chan = [i \in 1..nread |-> i]

\* two chunks have been fed while a third waits in the channel
C15_Witness ==
    /\ fed = <<1, 2>>
    /\ chan = <<3>>

\* C16: when the terminal model is released, the reader thread has left its
\* read loop.
C16_PumpStopsFirst ==
    (pc = "term_dropped") => (pump # "reading")

\* C17: the pseudo-console handle was closed and the program has ended only
\* after the reader thread left its loop.
C17_PumpCancelled ==
    (pc = "exited" /\ h["hpcon"] = "closed") => (pump = "done")

\* C18: the control loop, once at the top of an iteration, eventually
\* reaches its input poll, whatever the reader thread delivers meanwhile.
C18_LoopReachesPoll == (pc = "drain") ~> (pc = "poll")

\* C19: a redraw paints the name of the mode the program is in.
C19_StatusShowsMode ==
    (last.ev = "draw") => (shown = ModeStr(mode))

\* C20: after a Resize event whose session resize failed, the mode and the
\* geometry of the terminal model are those that held before the event.
C20_FailedResizeKeepsGeometry ==
    (last.ev = "ResizeFailed") =>
        /\ mode = last.mode
        /\ <<cols, rows>> = last.size
        /\ term_rows = (IF last.size[2] - 1 > 1 THEN last.size[2] - 1 ELSE 1)

----------------------------------------------------------------------------
(* Redraw, the two modes, and the reader thread's handle.                  *)

\* C21: once the dirty flag is set, a redraw follows, unless F10 ends the
\* program first.
C21_ChangeRedrawn ==
    dirty ~> (last.ev = "draw" \/ pc \in QuitPcs)

\* C22: in Normal mode the scrollback offset is 0.
C22_NormalAtBottom ==
    (mode = "Normal") => (scrollback_offset = 0)

\* a wheel-down in Scrollback, with the view scrolled back, returned to Normal
C22_Witness ==
    /\ last.ev = "Mouse"
    /\ last.key = "ScrollDown"
    /\ last.mode = "Scrollback"
    /\ last.off > 0
    /\ mode = "Normal"
    /\ scrollback_offset = 0

\* C23: in Scrollback mode the scrollback offset is greater than 0.
C23_ScrollbackAboveBottom ==
    (mode = "Scrollback") => (scrollback_offset > 0)

\* C24: the reader thread never calls ReadFile on pty_out_read after Drop
\* for TabPty has closed it.
C24_NoReadAfterClose ==
    readClosed = FALSE

====
